---- MODULE Spec2Model ----
(***************************************************************************)
(* A model of forge's multi-contract test runner                           *)
(* (forge/src/multi_runner.rs) and of the filter of the test command       *)
(* (cli/src/cmd/forge/test.rs).                                            *)
(*                                                                         *)
(* Text (paths, names, signatures, regular expressions) is a sequence of   *)
(* tokens; a token is a piece of the text, e.g. "test" or "(".  A regular  *)
(* expression is modelled by the literal it searches for, searched         *)
(* unanchored as regex::Regex::is_match does; the empty literal matches    *)
(* everything, as ".*" does.                                               *)
(***************************************************************************)
EXTENDS Integers, Sequences, FiniteSets, TLC

VARIABLES
    compiled,            \* the compiler output handed to build(): ArtifactId -> contract
    contracts,           \* MultiContractRunner.contracts: ArtifactId -> Abi
    known_contracts,     \* MultiContractRunner.known_contracts: ArtifactId -> Abi
    fork_config,         \* MultiContractRunnerBuilder.fork, as set by with_fork
    fork,                \* MultiContractRunner.fork
    settings,            \* MultiContractRunner.sender, .fuzzer and .evm_spec, once built
    filter,              \* the filter handed to test()
    include_fuzz_tests,  \* argument of test()
    stream_on,           \* stream_result.is_some()
    backend,             \* the fork the db backend of the current test() call serves
    calls,               \* number of test() calls on the runner so far
    ran,                 \* per suite handed to a ContractRunner: what run_tests returned
    stream,              \* messages sent on stream_result, in sending order
    results,             \* the map test() returns
    pc,                  \* "build", "running" while the parallel iterator works,
                         \* then "returned" or "panicked"
    received,            \* number of messages the consumer loop has taken
    cli_results,         \* the consumer's map (test.rs, fn test)
    cli_pc,              \* position of the CLI test function; "none" without a CLI
    allow_failure,       \* TestArgs.allow_failure
    exit_code,           \* what ensure_ok did
    probe,               \* the names a Filter is applied to
    verdict,             \* what the Filter's methods returned for probe
    verbosity,           \* the verbosity the user asked for (-v count)
    gas_report,          \* TestArgs.gas_report
    evm_verbosity,       \* evm_opts.verbosity as handed to build()
    printed,             \* the traces the consumer loop printed: <<suite, test, kind>>
    debugged,            \* what the debugger was run on, if it was
    cli_error,           \* the count named by the error of custom_run, if any
    next_id,             \* NEXT_ID (test-utils/src/util.rs)
    creating,            \* per thread: the TestProject::new call under way, if any
    projects,            \* the TempProjects created so far, in creation order
    cwd,                 \* the current directory of the test process
    lock_holder,         \* the thread holding CURRENT_DIR_LOCK, 0 when it is free
    commands,            \* the TestCommands created so far, in creation order
    tpc                  \* per thread: its position in a TestCommand operation

runnerVars == <<compiled, contracts, known_contracts, fork_config, fork, settings>>
callVars == <<filter, include_fuzz_tests, stream_on, backend, calls>>
cliVars == <<received, cli_results, cli_pc, allow_failure, exit_code>>
filterVars == <<probe, verdict>>
traceVars == <<verbosity, gas_report, evm_verbosity, printed>>
debugVars == <<debugged, cli_error>>
projectVars == <<next_id, creating, projects>>
lockVars == <<cwd, lock_holder, commands, tpc>>
utilVars == <<projectVars, lockVars>>

vars == <<runnerVars, callVars, ran, stream, results, pc, cliVars, filterVars, traceVars,
          debugVars, utilVars>>

-----------------------------------------------------------------------------
(* Option<T> *)
None == <<>>
Some(x) == <<x>>
IsSome(o) == o # <<>>
Unwrap(o) == o[1]

(* an empty BTreeMap *)
EmptyMap == [k \in {} |-> TRUE]

(* str::starts_with *)
StartsWith(s, p) == Len(s) >= Len(p) /\ SubSeq(s, 1, Len(p)) = p

(* regex::Regex::is_match: an unanchored search for the literal re *)
IsMatch(re, s) == \E i \in 0..(Len(s) - Len(re)) : SubSeq(s, i + 1, i + Len(re)) = re

(* globset matcher is_match: the whole path against the glob; the token "*"
   stands for any run of tokens *)
RECURSIVE GlobMatch(_, _)
GlobMatch(g, s) ==
    IF g = <<>> THEN s = <<>>
    ELSE IF Head(g) = "*"
         THEN \E k \in 0..Len(s) : GlobMatch(Tail(g), SubSeq(s, k + 1, Len(s)))
         ELSE s # <<>> /\ Head(s) = Head(g) /\ GlobMatch(Tail(g), Tail(s))

-----------------------------------------------------------------------------
(* The filter of the test command *)

NoFilter ==
    [pattern |-> None, test_pattern |-> None, test_pattern_inverse |-> None,
     contract_pattern |-> None, contract_pattern_inverse |-> None,
     path_pattern |-> None, path_pattern_inverse |-> None]

(* a matches_test that is content with any one configured condition *)
matches_test_any(f, test_name) ==
    \/ (IsSome(f.pattern) /\ IsMatch(Unwrap(f.pattern), test_name))
    \/ (IsSome(f.test_pattern) /\ IsMatch(Unwrap(f.test_pattern), test_name))
    \/ (IsSome(f.test_pattern_inverse) /\ ~IsMatch(Unwrap(f.test_pattern_inverse), test_name))

matches_test(f, test_name) ==
    /\ (IsSome(f.pattern) => IsMatch(Unwrap(f.pattern), test_name))
    /\ (IsSome(f.test_pattern) => IsMatch(Unwrap(f.test_pattern), test_name))
    /\ (IsSome(f.test_pattern_inverse) => ~IsMatch(Unwrap(f.test_pattern_inverse), test_name))

matches_contract(f, contract_name) ==
    /\ (IsSome(f.contract_pattern) => IsMatch(Unwrap(f.contract_pattern), contract_name))
    /\ (IsSome(f.contract_pattern_inverse) =>
            ~IsMatch(Unwrap(f.contract_pattern_inverse), contract_name))

matches_path(f, path) ==
    /\ (IsSome(f.path_pattern) => GlobMatch(Unwrap(f.path_pattern), path))
    /\ (IsSome(f.path_pattern_inverse) => ~GlobMatch(Unwrap(f.path_pattern_inverse), path))

(* A path is a sequence of tokens as well; the token InvalidBytes stands for
   bytes that are not valid Unicode, Replacement for U+FFFD *)
InvalidBytes == "\\xFF/"
Replacement == "\\uFFFD/"

(* OsStr::to_str: the text of the path, if it is valid Unicode *)
to_str(path) ==
    IF \E i \in 1..Len(path) : path[i] = InvalidBytes THEN None ELSE Some(path)

(* Path::to_string_lossy: invalid bytes are replaced by U+FFFD *)
to_string_lossy(path) ==
    [i \in 1..Len(path) |-> IF path[i] = InvalidBytes THEN Replacement ELSE path[i]]

(* FoundryPathExt::is_sol_test: the path has the suffix .t.sol *)
is_sol_test(path) == path # <<>> /\ path[Len(path)] = ".t.sol"

(* an is_match that looks at the suffix only, whatever globs are set *)
is_match_suffix_only(f, file) == is_sol_test(file)

(* FileFilter::is_match for Filter *)
is_match(f, file) ==
    IF to_str(file) # None /\ IsSome(f.path_pattern)
    THEN GlobMatch(Unwrap(f.path_pattern), Unwrap(to_str(file)))
    ELSE IF to_str(file) # None /\ IsSome(f.path_pattern_inverse)
    THEN ~GlobMatch(Unwrap(f.path_pattern_inverse), Unwrap(to_str(file)))
    ELSE is_sol_test(file)

-----------------------------------------------------------------------------
(* ABI functions and artifact ids *)

Func(name, inputs) == [name |-> name, inputs |-> inputs]

RECURSIVE JoinTypes(_)
JoinTypes(inputs) ==
    IF inputs = <<>> THEN <<>>
    ELSE IF Len(inputs) = 1 THEN <<inputs[1]>>
    ELSE <<inputs[1], ",">> \o JoinTypes(Tail(inputs))

(* ethabi Function::signature: "name(type,type)" *)
Signature(func) == func.name \o <<"(">> \o JoinTypes(func.inputs) \o <<")">>

(* ArtifactId::identifier: "<source>:<name>"; the version is not part of it *)
Identifier(id) == id.source \o <<":">> \o id.name

-----------------------------------------------------------------------------
(* The inputs: compiled test contracts, filters *)

MaxVersion == 2
MaxSuites == 2

SrcCore == <<"core/", "A", ".t.sol">>
SrcFuzz == <<"fuzz/", "B", ".t.sol">>
Sources == {SrcCore, SrcFuzz}

(* the contract each source file declares *)
ContractOf(source) == IF source = SrcCore THEN <<"A", "Test">> ELSE <<"B", "Test">>

(* one source file may be compiled with several compiler versions *)
ArtifactIds ==
    {[source |-> s, name |-> ContractOf(s), version |-> v] : s \in Sources, v \in 1..MaxVersion}

FnSetUp == Func(<<"setUp">>, <<>>)
FnTestA == Func(<<"test", "A">>, <<>>)
FnTestFailB == Func(<<"test", "Fail", "B">>, <<>>)
FnTestAFuzz == Func(<<"test", "A">>, <<"uint256">>)
FnTestCFuzz == Func(<<"test", "C">>, <<"uint256">>)
FnHelper == Func(<<"helper">>, <<>>)

AbiCore == {FnSetUp, FnTestA, FnTestFailB}
AbiFuzz == {FnTestCFuzz}
AbiMixed == {FnTestA, FnTestAFuzz, FnHelper}
(* the ABIs the contract of a source file may have *)
AbisOf(source) == IF source = SrcCore THEN {AbiCore, AbiMixed} ELSE {AbiFuzz, AbiMixed}

(* build() inserts a contract into the deployable set only if some function
   name starts with "test" *)
IsTestSuite(abi) == \E func \in abi : StartsWith(func.name, <<"test">>)

Filters ==
    { NoFilter,
      [NoFilter EXCEPT !.test_pattern = Some(<<"test", "A">>)],
      [NoFilter EXCEPT !.test_pattern = Some(<<"setUp">>)],
      [NoFilter EXCEPT !.test_pattern = Some(<<"(", "uint256">>)],
      [NoFilter EXCEPT !.test_pattern_inverse = Some(<<"Fail">>),
                       !.contract_pattern = Some(<<"A">>),
                       !.path_pattern = Some(<<"core/", "*">>)] }

-----------------------------------------------------------------------------
(* MultiContractRunnerBuilder::build *)

(* BytecodeObject of a contract after linking: linked bytes, the empty bytes
   the compiler emits for an abstract contract, or still unlinked *)
BytecodeObjects == {"bytes", "empty", "unlinked"}

(* an into_bytes that yields the object whatever it is *)
into_bytes_raw(object) == Some(object)

(* BytecodeObject::into_bytes: the bytes unless the object is unlinked *)
into_bytes(object) == IF object = "unlinked" THEN None ELSE Some(object)

(* a compiled contract: its functions, its constructor's number of inputs
   (None without a constructor), creation and deployed bytecode *)
Compiled(abi, ctor, bytecode, deployed) ==
    [abi |-> abi, ctor |-> ctor, bytecode |-> bytecode, deployed |-> deployed]

(* a concrete contract without a constructor *)
Concrete(abi) == Compiled(abi, None, "bytes", Some("bytes"))


(* a closure that inserts test contracts whatever their constructor takes *)
IsDeployableAnyCtor(c) ==
    /\ into_bytes(c.bytecode) # None
    /\ IsTestSuite(c.abi)

(* what link may return when a library reference of some contract cannot be
   resolved: an error, or Ok with that contract's bytecode left unlinked,
   which the closure provides for *)
LinkResults(artifacts) ==
    IF \E id \in DOMAIN artifacts : artifacts[id].bytecode = "unlinked"
    THEN {"ok", "err"}
    ELSE {"ok"}

(* a linker that hands abstract contracts to the closure as well *)
LinkVisitsAll(artifacts) == DOMAIN artifacts

(* foundry_utils::link: the artifacts the post_link closure is called for;
   a contract with empty creation bytecode (an abstract contract) is skipped *)
LinkVisits(artifacts) == {id \in DOMAIN artifacts : artifacts[id].bytecode # "empty"}

(* the post_link closure: does it insert the contract into the deployable set *)
IsDeployable(c) ==
    /\ into_bytes(c.bytecode) # None
    /\ (c.ctor = None \/ c.ctor = Some(0))
    /\ IsTestSuite(c.abi)

(* the post_link closure: does it insert the contract into known_contracts *)
IsKnown(c) ==
    /\ into_bytes(c.bytecode) # None
    /\ c.deployed # None
    /\ into_bytes(Unwrap(c.deployed)) # None

build(artifacts) ==
    LET visited == LinkVisits(artifacts)
    IN  [deployable |-> [id \in {i \in visited : IsDeployable(artifacts[i])} |-> artifacts[id].abi],
         known |-> [id \in {i \in visited : IsKnown(artifacts[i])} |-> artifacts[id].abi]]

-----------------------------------------------------------------------------
(* ContractRunner::run_tests, for one suite.  env is what the EVM does:    *)
(* env.outcome says how far the suite gets, env.call what every test call  *)
(* of the suite does: it passes, it reverts, it returns with the DSTest    *)
(* failed flag set, or ("reject") the fuzzer rejects so many generated     *)
(* inputs of a fuzz test that it gives up (a standard call then passes).   *)

Outcomes == {"err", "deploy_revert", "setup_revert", "ok"}
Calls == {"pass", "revert", "ds_fail", "reject"}

RevertReason == <<"nope">>
TooManyRejects == <<"Too many global rejects">>
SigSetUp == <<"setUp", "(", ")">>
SigConstructor == <<"constructor", "(", ")">>

HasSetUp(abi) == \E func \in abi : Signature(func) = SigSetUp

(* a verdict that overlooks the DSTest failed flag *)
IsSuccessIgnoresFlag(should_fail, reverted, ds_failed) ==
    IF should_fail THEN reverted ELSE ~reverted

(* a verdict that lets a testFail* function pass only when the call reverted *)
IsSuccessRevertOnly(should_fail, reverted, ds_failed) ==
    IF should_fail THEN reverted ELSE ~reverted /\ ~ds_failed

(* the verdict of one call: a testFail* function inverts the verdict *)
IsSuccess(should_fail, reverted, ds_failed) ==
    IF should_fail THEN ~(~reverted /\ ~ds_failed) ELSE ~reverted /\ ~ds_failed

(* a fuzz run that gave up reports the last input it generated as a counterexample *)
FuzzAbortedWithInput(func) ==
    [success |-> FALSE, reason |-> Some(TooManyRejects),
     counterexample |-> Some(Signature(func)), kind |-> "Fuzz"]

(* the fuzzer gave up on too many rejected inputs: a failure with that
   reason, and no counterexample was found *)
FuzzAborted(func) ==
    [success |-> FALSE, reason |-> Some(TooManyRejects), counterexample |-> None,
     kind |-> "Fuzz"]

TestResultOf(func, call) ==
    LET should_fail == StartsWith(func.name, <<"test", "Fail">>)
        reverted == call = "revert"
        ds_failed == call = "ds_fail"
        success == IsSuccess(should_fail, reverted, ds_failed)
        fuzz == func.inputs # <<>>
    IN  IF fuzz /\ call = "reject" THEN FuzzAborted(func)
        ELSE [success |-> success,
              reason |-> IF ~success /\ reverted THEN Some(RevertReason) ELSE None,
              counterexample |-> IF fuzz /\ ~success THEN Some(Signature(func)) ELSE None,
              kind |-> IF fuzz THEN "Fuzz" ELSE "Standard"]

SyntheticFailure(reason) ==
    [success |-> FALSE, reason |-> Some(reason), counterexample |-> None, kind |-> "Standard"]

(* the test functions the runner dispatches *)
DispatchedTests(abi, f, fuzz) ==
    {func \in abi : /\ StartsWith(func.name, <<"test">>)
                    /\ matches_test(f, Signature(func))
                    /\ (func.inputs = <<>> \/ fuzz)}

(* a runner that goes on to the test functions after setUp() reverted *)
SetupFailedRunsTests(abi, f, fuzz, env) ==
    LET tests == DispatchedTests(abi, f, fuzz)
        sigs == {Signature(func) : func \in tests}
    IN  [ok |-> TRUE, outcome |-> "setup_revert", call |-> env.call, executed |-> sigs,
         test_results |->
             [s \in sigs \cup {SigSetUp} |->
                 IF s = SigSetUp
                 THEN SyntheticFailure(<<"Setup failed: ">> \o RevertReason)
                 ELSE TestResultOf(CHOOSE func \in tests : Signature(func) = s, env.call)]]

(* setUp() reverted: one synthetic failing result, no test function is run *)
SetupFailed(abi, f, fuzz, env) ==
    [ok |-> TRUE, outcome |-> "setup_revert", call |-> env.call, executed |-> {},
     test_results |->
         [s \in {SigSetUp} |-> SyntheticFailure(<<"Setup failed: ">> \o RevertReason)]]

ContractRunnerRunTests(abi, f, fuzz, env) ==
    IF env.outcome = "err"
    THEN [ok |-> FALSE, outcome |-> "err", call |-> env.call, executed |-> {},
          test_results |-> EmptyMap]
    ELSE IF env.outcome = "deploy_revert"
    THEN [ok |-> TRUE, outcome |-> "deploy_revert", call |-> env.call, executed |-> {},
          test_results |-> [s \in {SigConstructor} |-> SyntheticFailure(RevertReason)]]
    ELSE IF env.outcome = "setup_revert" /\ HasSetUp(abi)
    THEN SetupFailed(abi, f, fuzz, env)
    ELSE LET tests == DispatchedTests(abi, f, fuzz)
         IN  [ok |-> TRUE, outcome |-> "ok", call |-> env.call,
              executed |-> {Signature(func) : func \in tests},
              test_results |->
                  [s \in {Signature(func) : func \in tests} |->
                      TestResultOf(CHOOSE func \in tests : Signature(func) = s, env.call)]]

-----------------------------------------------------------------------------
(* MultiContractRunner *)

(* count_filtered_tests *)
count_filtered_tests(cs, f) ==
    Cardinality({<<id, func>> \in UNION {{id} \X cs[id] : id \in DOMAIN cs} :
                    /\ matches_path(f, id.source)
                    /\ matches_contract(f, id.name)
                    /\ matches_test(f, Signature(func))})

(* the two filters of test() in front of the map closure *)
IsSelected(cs, f, id) ==
    /\ matches_path(f, id.source)
    /\ matches_contract(f, id.name)
    /\ \E func \in cs[id] : matches_test(f, func.name)

SelectedSuites(cs, f) == {id \in DOMAIN cs : IsSelected(cs, f, id)}

(* a run_tests that does not hand the caller's filter to the ContractRunner *)
run_tests_unfiltered(abi, f, fuzz, env) == ContractRunnerRunTests(abi, NoFilter, fuzz, env)

(* run_tests: builds the ContractRunner and runs it *)
run_tests(abi, f, fuzz, env) == ContractRunnerRunTests(abi, f, fuzz, env)

(* filter_map(Result::ok) and filter(!results.is_empty()) *)
IsKept(r) == r.ok /\ DOMAIN r.test_results # {}

(* a collect that gives up when the runner of some suite returned an error *)
CollectFailFast(rn) ==
    LET kept == IF \E id \in DOMAIN rn : ~rn[id].ok
                THEN {}
                ELSE {id \in DOMAIN rn : IsKept(rn[id])}
        last(k) == CHOOSE id \in kept :
                      /\ Identifier(id) = k
                      /\ \A o \in kept : Identifier(o) = k => o.version <= id.version
    IN  [k \in {Identifier(id) : id \in kept} |-> [test_results |-> rn[last(k)].test_results]]

(* collect::<BTreeMap<_, _>>(): the items in the order of self.contracts,
   a later item replacing an earlier one under the same key *)
Collect(rn) ==
    LET kept == {id \in DOMAIN rn : IsKept(rn[id])}
        last(k) == CHOOSE id \in kept :
                      /\ Identifier(id) = k
                      /\ \A o \in kept : Identifier(o) = k => o.version <= id.version
    IN  [k \in {Identifier(id) : id \in kept} |-> [test_results |-> rn[last(k)].test_results]]

(* nothing is traced or printed *)
NoTrace ==
    /\ verbosity = 0
    /\ gas_report = FALSE
    /\ evm_verbosity = 0
    /\ printed = {}

(* cli/test-utils is not in use: no project, no command, the lock is free *)
NoTestUtils ==
    /\ next_id = 0
    /\ creating = EmptyMap
    /\ projects = <<>>
    /\ cwd = <<>>
    /\ lock_holder = 0
    /\ commands = <<>>
    /\ tpc = EmptyMap

(* custom_run is not in its --debug branch *)
NoDebugger == debugged = None /\ cli_error = None

(* the runner is not driven by the CLI test function *)
NoCli ==
    /\ NoTrace
    /\ NoDebugger
    /\ NoTestUtils
    /\ received = 0
    /\ cli_results = EmptyMap
    /\ cli_pc = "none"
    /\ allow_failure = FALSE
    /\ exit_code = None

(* no Filter method is being probed *)
NoProbe == probe = None /\ verdict = None

(* the artifacts of one compiler version *)
SingleVersionIds == {id \in ArtifactIds : id.version = 1}

(* what the builder was given: sender, fuzzer, evm_spec (LONDON by default) *)
BuilderSettings == [sender |-> "sender", fuzzer |-> "fuzzer", evm_spec |-> "LONDON"]

(* a runner built from concrete test contracts of up to MaxSuites artifacts
   among ids *)
BuiltRunner(ids, fork_opt) ==
    /\ \E S \in SUBSET ids, coreAbi \in AbisOf(SrcCore), fuzzAbi \in AbisOf(SrcFuzz) :
          /\ S # {}
          /\ Cardinality(S) <= MaxSuites
          /\ compiled = [id \in S |-> Concrete(IF id.source = SrcCore THEN coreAbi ELSE fuzzAbi)]
    /\ contracts = build(compiled).deployable
    /\ known_contracts = build(compiled).known
    /\ settings = Some(BuilderSettings)
    /\ fork_config = fork_opt

(* the entry of the first test() call: the db backend takes the runner's fork *)
EnterTest ==
    /\ backend = fork_config
    /\ fork = None
    /\ calls = 1
    /\ ran = EmptyMap
    /\ stream = <<>>
    /\ results = EmptyMap
    /\ pc = "running"

Init ==
    /\ BuiltRunner(ArtifactIds, None)
    /\ filter \in Filters
    /\ include_fuzz_tests \in BOOLEAN
    /\ stream_on \in BOOLEAN
    /\ EnterTest
    /\ NoCli
    /\ NoProbe

(* the messages sent on the channel that the receiver has not taken yet *)
Pending == SubSeq(stream, received + 1, Len(stream))

(* a channel of capacity one, whose send waits while a message is pending *)
CanSendBounded(pending) == Len(pending) < 1

(* Sender::send on the channel made by std::sync::mpsc::channel, which buffers
   without bound: it never waits for the receiver *)
CanSend(pending) == TRUE

(* what the EVM may do with the suite id *)
ValidEnv(id, outcome, call) ==
    /\ outcome = "setup_revert" => HasSetUp(contracts[id])
    /\ outcome # "ok" => call = "pass"
    /\ call = "reject" =>
          \E func \in DispatchedTests(contracts[id], filter, include_fuzz_tests) :
              func.inputs # <<>>

(* the parallel iterator has not handled the selected suite id yet *)
CanRun(id) ==
    /\ pc = "running"
    /\ id \in SelectedSuites(contracts, filter)
    /\ id \notin DOMAIN ran

(* the map closure, filter_map, filter and map_with of test() for the suite
   id, the EVM behaving as outcome and call say *)
RunAndSend(id, outcome, call) ==
    /\ LET r == run_tests(contracts[id], filter, include_fuzz_tests,
                          [outcome |-> outcome, call |-> call])
       IN  /\ (stream_on /\ IsKept(r)) => CanSend(Pending)
           /\ ran' = (id :> r) @@ ran
           /\ stream' = IF stream_on /\ IsKept(r)
                        THEN Append(stream, <<Identifier(id),
                                              [test_results |-> r.test_results]>>)
                        ELSE stream
    /\ UNCHANGED <<runnerVars, callVars, results, pc, cliVars, filterVars, traceVars, debugVars, utilVars>>

(* one item of the parallel iterator, for one behaviour of the EVM *)
RunSuiteWith(id, outcome, call) ==
    CanRun(id) /\ ValidEnv(id, outcome, call) /\ RunAndSend(id, outcome, call)

(* one item of the parallel iterator *)
RunSuite(id) ==
    /\ CanRun(id)
    /\ \E outcome \in Outcomes, call \in Calls :
          ValidEnv(id, outcome, call) /\ RunAndSend(id, outcome, call)

(* the end of test(): collect and return Ok(results) *)
Return ==
    /\ pc = "running"
    /\ SelectedSuites(contracts, filter) \subseteq DOMAIN ran
    /\ results' = Collect(ran)
    /\ pc' = "returned"
    /\ UNCHANGED <<runnerVars, callVars, ran, stream, cliVars, filterVars, traceVars, debugVars, utilVars>>

Next ==
    \/ \E id \in ArtifactIds : RunSuite(id)
    \/ Return

Spec == Init /\ [][Next]_vars

-----------------------------------------------------------------------------
(* build() followed by test(): the compiler output holds up to two contracts
   of one source file, any of which may be abstract, unlinked, a non-test
   contract or have a constructor with inputs *)

AbstractBase == [source |-> SrcCore, name |-> <<"A", "Test", "Base">>, version |-> 1]
ConcreteTest == [source |-> SrcCore, name |-> <<"A", "Test">>, version |-> 1]
BuildIds == {AbstractBase, ConcreteTest}

AbiHelper == {FnHelper}

CompiledContracts ==
    {Compiled(abi, ctor, code[1], code[2]) :
        abi \in {AbiCore, AbiHelper},
        ctor \in {None, Some(0), Some(1)},
        code \in {<<"bytes", Some("bytes")>>, <<"bytes", None>>,
                  <<"empty", Some("empty")>>, <<"unlinked", Some("unlinked")>>,
                  <<"unlinked", Some("bytes")>>}}

BuildFilters ==
    { NoFilter,
      [NoFilter EXCEPT !.test_pattern_inverse = Some(<<"Fail">>),
                       !.contract_pattern = Some(<<"A">>),
                       !.path_pattern = Some(<<"core/", "*">>)] }

InitBuild ==
    /\ \E S \in SUBSET BuildIds : S # {} /\ compiled \in [S -> CompiledContracts]
    /\ contracts = EmptyMap
    /\ known_contracts = EmptyMap
    /\ settings = None
    /\ fork_config = None
    /\ fork = None
    /\ filter \in BuildFilters
    /\ include_fuzz_tests = TRUE
    /\ stream_on = FALSE
    /\ backend = None
    /\ calls = 0
    /\ ran = EmptyMap
    /\ stream = <<>>
    /\ results = EmptyMap
    /\ pc = "build"
    /\ NoCli
    /\ NoProbe

(* MultiContractRunnerBuilder::build: Ok(runner), or the error of link
   handed on by the ? operator *)
Build ==
    /\ pc = "build"
    /\ \E linked \in LinkResults(compiled) :
          IF linked = "ok"
          THEN /\ contracts' = build(compiled).deployable
               /\ known_contracts' = build(compiled).known
               /\ settings' = Some(BuilderSettings)
               /\ fork' = fork_config
               /\ pc' = "built"
          ELSE /\ pc' = "build_failed"
               /\ UNCHANGED <<contracts, known_contracts, settings, fork>>
    /\ UNCHANGED <<compiled, fork_config, callVars, ran, stream, results, cliVars, filterVars, traceVars, debugVars, utilVars>>

(* an entry of test() that moves the contracts out of the runner *)
EnterCallTakingContracts ==
    /\ backend' = fork
    /\ fork' = None
    /\ contracts' = EmptyMap
    /\ calls' = calls + 1
    /\ ran' = EmptyMap
    /\ stream' = <<>>
    /\ results' = EmptyMap
    /\ pc' = "running"
    /\ UNCHANGED <<compiled, known_contracts, settings, fork_config, filter,
                   include_fuzz_tests, stream_on, cliVars, filterVars, traceVars, debugVars,
                   utilVars>>

(* the entry of test(): Backend::new(self.fork.take(), ..) *)
EnterCall ==
    /\ backend' = fork
    /\ fork' = None
    /\ calls' = calls + 1
    /\ ran' = EmptyMap
    /\ stream' = <<>>
    /\ results' = EmptyMap
    /\ pc' = "running"
    /\ UNCHANGED <<compiled, contracts, known_contracts, settings, fork_config, filter,
                   include_fuzz_tests, stream_on, cliVars, filterVars, traceVars, debugVars, utilVars>>

(* the first test() call on a runner just built *)
Test == pc = "built" /\ EnterCall

NextBuild ==
    \/ Build
    \/ Test
    \/ \E id \in BuildIds : RunSuite(id)
    \/ Return

SpecBuild == InitBuild /\ [][NextBuild]_vars

-----------------------------------------------------------------------------
(* test() called up to MaxCalls times on one runner, which may have been
   built with a fork *)

MaxCalls == 2

(* Fork: the remote chain state the tests are to run against *)
ForkConfigs == {None, Some("fork")}

InitRerun ==
    /\ \E fork_opt \in ForkConfigs : BuiltRunner(SingleVersionIds, fork_opt)
    /\ filter = NoFilter
    /\ include_fuzz_tests = TRUE
    /\ stream_on = FALSE
    /\ EnterTest
    /\ NoCli
    /\ NoProbe

(* test() is called again on the same runner with the same arguments *)
TestAgain == pc = "returned" /\ calls < MaxCalls /\ EnterCall

NextRerun ==
    \/ \E id \in ArtifactIds : RunSuite(id)
    \/ Return
    \/ TestAgain

SpecRerun == InitRerun /\ [][NextRerun]_vars

-----------------------------------------------------------------------------
(* The CLI test function (test.rs, fn test, without --json): test() runs in
   a thread of its own and streams to the consumer loop *)

(* TestOutcome::tests: every test result, with the key of its suite *)
tests(outcome) ==
    UNION {{<<k, s, outcome.results[k].test_results[s]>> :
                s \in DOMAIN outcome.results[k].test_results} : k \in DOMAIN outcome.results}

(* TestOutcome::successes *)
successes(outcome) == {t \in tests(outcome) : t[3].success}

(* failing tests, taken to be the ones that give a reason *)
failures_with_reason(outcome) == {t \in tests(outcome) : t[3].reason # None}

(* TestOutcome::failures *)
failures(outcome) == {t \in tests(outcome) : ~t[3].success}

(* an ensure_ok that exits on failures whether or not they are allowed *)
ensure_ok_strict(outcome) ==
    IF Cardinality(failures(outcome)) > 0 THEN "exit" ELSE "ok"

(* TestOutcome::ensure_ok: "exit" is std::process::exit(1), "ok" is Ok(()) *)
ensure_ok(outcome) ==
    IF ~outcome.allow_failure
    THEN IF Cardinality(failures(outcome)) > 0 THEN "exit" ELSE "ok"
    ELSE "ok"

(* the -v count goes up to MaxVerbosity *)
MaxVerbosity == 5

(* an executor verbosity that a gas report does not raise *)
executor_verbosity_as_asked(v, report) == v

(* custom_run: the verbosity the executor gets; a gas report needs traces *)
executor_verbosity(v, report) == IF report /\ v < 3 THEN 3 ELSE v

(* test(): builder.with_tracing() *)
Tracing == evm_verbosity >= 3

TraceKinds == {"Deployment", "Setup", "Execution"}

(* the traces a test result carries *)
TracesOf(tracing) == IF tracing THEN TraceKinds ELSE {}

(* a selection that prints execution traces of failed tests only up to 4 *)
should_include_failed_only(kind, v, success) ==
    CASE kind = "Setup" -> (v >= 5) \/ (v = 4 /\ ~success)
      [] kind = "Execution" -> (v > 4) \/ (v >= 3 /\ ~success)
      [] OTHER -> FALSE

(* the consumer loop: is a trace of this kind printed *)
should_include(kind, v, success) ==
    CASE kind = "Setup" -> (v >= 5) \/ (v = 4 /\ ~success)
      [] kind = "Execution" -> (v > 3) \/ (v = 3 /\ ~success)
      [] OTHER -> FALSE

(* the traces the loop body prints for one message *)
PrintedFor(msg) ==
    {t \in {msg[1]} \X (DOMAIN msg[2].test_results) \X TracesOf(Tracing) :
        should_include(t[3], verbosity, msg[2].test_results[t[2]].success)}

(* TestOutcome::new(results, allow_failure), built by the CLI test function *)
Outcome == [results |-> cli_results, allow_failure |-> allow_failure]

InitCli ==
    /\ BuiltRunner(SingleVersionIds, None)
    /\ filter = NoFilter
    /\ include_fuzz_tests = TRUE
    /\ stream_on = TRUE
    /\ EnterTest
    /\ received = 0
    /\ cli_results = EmptyMap
    /\ cli_pc = "consuming"
    /\ allow_failure \in BOOLEAN
    /\ exit_code = None
    /\ NoProbe
    /\ verbosity \in 0..MaxVerbosity
    /\ gas_report \in BOOLEAN
    /\ evm_verbosity = executor_verbosity(verbosity, gas_report)
    /\ printed = {}
    /\ NoDebugger
    /\ NoTestUtils

(* the thread running test() panics: the EVM, the db backend or the unwrap
   of the thread's closure *)
Panic ==
    /\ pc = "running"
    /\ pc' = "panicked"
    /\ UNCHANGED <<runnerVars, callVars, ran, stream, results, cliVars, filterVars, traceVars, debugVars, utilVars>>

(* one iteration of the consumer loop *)
Receive ==
    /\ cli_pc = "consuming"
    /\ received < Len(stream)
    /\ LET msg == stream[received + 1]
       IN  /\ printed' = printed \cup PrintedFor(msg)
           /\ cli_results' = (msg[1] :> msg[2]) @@ cli_results
    /\ received' = received + 1
    /\ UNCHANGED <<runnerVars, callVars, ran, stream, results, pc, cli_pc, allow_failure,
                   exit_code, filterVars, verbosity, gas_report, evm_verbosity, debugVars, utilVars>>

(* a sender that outlives a panic of the thread it was moved into *)
DisconnectedOnReturnOnly == pc = "returned"

(* every Sender is dropped: tx was moved into the thread running test(), its
   clones live inside test(), so all are gone once test() returned or the
   thread unwound *)
Disconnected == pc \in {"returned", "panicked"}

(* the channel is empty and every sender is gone: the loop ends, the thread
   is joined, its result dropped, and Ok(TestOutcome) returned *)
Finish ==
    /\ cli_pc = "consuming"
    /\ received = Len(stream)
    /\ Disconnected
    /\ cli_pc' = "ok"
    /\ UNCHANGED <<runnerVars, callVars, ran, stream, results, pc, received, cli_results,
                   allow_failure, exit_code, filterVars, traceVars, debugVars, utilVars>>

(* TestOutcome::ensure_ok on the outcome returned *)
EnsureOk ==
    /\ cli_pc = "ok"
    /\ IF ensure_ok(Outcome) = "exit"
       THEN cli_pc' = "exited" /\ exit_code' = Some(1)
       ELSE cli_pc' = "ensured" /\ exit_code' = None
    /\ UNCHANGED <<runnerVars, callVars, ran, stream, results, pc, received, cli_results,
                   allow_failure, filterVars, traceVars, debugVars, utilVars>>

NextCli ==
    \/ \E id \in ArtifactIds : RunSuite(id)
    \/ Return
    \/ Panic
    \/ Receive
    \/ Finish
    \/ EnsureOk

SpecCli == InitCli /\ [][NextCli]_vars

(* SpecStream: the streaming branch of the CLI test function on a runner
   whose source was compiled with every compiler version *)

(* the artifacts of one source file under every compiler version *)
CoreIds == {id \in ArtifactIds : id.source = SrcCore}

InitStream ==
    /\ BuiltRunner(CoreIds, None)
    /\ filter = NoFilter
    /\ include_fuzz_tests = TRUE
    /\ stream_on = TRUE
    /\ EnterTest
    /\ received = 0
    /\ cli_results = EmptyMap
    /\ cli_pc = "consuming"
    /\ allow_failure = FALSE
    /\ exit_code = None
    /\ NoProbe
    /\ NoTrace
    /\ NoDebugger
    /\ NoTestUtils

NextStream ==
    \/ \E id \in ArtifactIds : RunSuite(id)
    \/ Return
    \/ Panic
    \/ Receive
    \/ Finish

SpecStream == InitStream /\ [][NextStream]_vars

(* the thread of the CLI test function keeps running: its loop takes a
   message that is there, and ends when the channel is empty and closed *)
SpecStreamLive == SpecStream /\ WF_vars(Receive) /\ WF_vars(Finish)

-----------------------------------------------------------------------------
(* The Filter of a command line, and its three methods applied to names *)

(* no runner has been built and no test function entered *)
NoRunner ==
    /\ compiled = EmptyMap
    /\ contracts = EmptyMap
    /\ known_contracts = EmptyMap
    /\ settings = None
    /\ fork_config = None
    /\ fork = None
    /\ include_fuzz_tests = TRUE
    /\ stream_on = FALSE
    /\ backend = None
    /\ calls = 0
    /\ ran = EmptyMap
    /\ stream = <<>>
    /\ results = EmptyMap
    /\ pc = "none"
    /\ received = 0
    /\ cli_results = EmptyMap
    /\ allow_failure = FALSE
    /\ exit_code = None
    /\ NoTrace
    /\ NoDebugger
    /\ NoTestUtils

(* the fields of Filter other than the legacy pattern *)
OtherFields ==
    {"test_pattern", "test_pattern_inverse", "contract_pattern", "contract_pattern_inverse",
     "path_pattern", "path_pattern_inverse"}

(* the Filter values the command line parser accepts: every other field
   conflicts with the legacy pattern *)
ParsedFilters ==
    {f \in [pattern : {None, Some(<<"A">>)},
            test_pattern : {None, Some(<<"test">>), Some(<<"B">>)},
            test_pattern_inverse : {None, Some(<<"Fail">>)},
            contract_pattern : {None, Some(<<"A">>)},
            contract_pattern_inverse : {None, Some(<<"Base">>)},
            path_pattern : {None, Some(<<"core/", "*">>)},
            path_pattern_inverse : {None, Some(<<"*", ".t.sol">>)}] :
        IsSome(f.pattern) => \A field \in OtherFields : f[field] = None}

(* the regular expressions given to --debug *)
DebugPatterns == {<<"test">>, <<"B">>}

(* the names the methods are applied to *)
Probes ==
    [test : {<<"test", "A">>, <<"test", "B">>, <<"test", "Fail", "B">>},
     contract : {<<"A", "Test">>, <<"A", "Test", "Base">>},
     path : {SrcCore, SrcFuzz, <<"core/", "A", ".sol">>, <<InvalidBytes, "B", ".t.sol">>,
             <<"core/", InvalidBytes, ".sol">>}]

InitFilter ==
    /\ NoRunner
    /\ filter \in ParsedFilters
    /\ cli_pc = "parsed"
    /\ probe \in {Some(p) : p \in Probes}
    /\ verdict = None

(* custom_run with --debug: the test pattern is replaced by the argument *)
Debug ==
    /\ cli_pc = "parsed"
    /\ verdict = None
    /\ \E re \in DebugPatterns : filter' = [filter EXCEPT !.test_pattern = Some(re)]
    /\ cli_pc' = "debug"
    /\ UNCHANGED <<runnerVars, include_fuzz_tests, stream_on, backend, calls, ran, stream,
                   results, pc, received, cli_results, allow_failure, exit_code, filterVars, traceVars, debugVars, utilVars>>

(* the three methods of TestFilter and FileFilter::is_match applied to the
   probe; matches_path is given the path as test() gives it *)
ApplyFilter ==
    /\ verdict = None
    /\ probe # None
    /\ verdict' = Some([test |-> matches_test(filter, Unwrap(probe).test),
                        contract |-> matches_contract(filter, Unwrap(probe).contract),
                        path |-> matches_path(filter, to_string_lossy(Unwrap(probe).path)),
                        file |-> is_match(filter, Unwrap(probe).path)])
    /\ UNCHANGED <<runnerVars, callVars, ran, stream, results, pc, cliVars, probe, traceVars, debugVars, utilVars>>

NextFilter ==
    \/ Debug
    \/ ApplyFilter

SpecFilter == InitFilter /\ [][NextFilter]_vars

-----------------------------------------------------------------------------
(* custom_run with --debug: count the matching tests, run them, run the
   debugger on the result *)

(* config.fuzz_runs: the cases a fuzz test runs *)
FuzzRuns == 2

(* the regular expressions given to --debug *)
DebugRegexes ==
    {<<"test", "A">>, <<"test", "C">>, <<"test", "Fail">>, <<"helper">>, <<"A", "(", ")">>}

(* the filters --debug is combined with *)
DebugFilters == {NoFilter, [NoFilter EXCEPT !.contract_pattern = Some(<<"A">>)]}

(* the keys of the BTreeMaps at hand (suite identifiers, signatures) in the
   order of String *)
StringOrder ==
    << <<"constructor", "(", ")">>,
       Identifier([source |-> SrcCore, name |-> ContractOf(SrcCore)]),
       Identifier([source |-> SrcFuzz, name |-> ContractOf(SrcFuzz)]),
       <<"setUp", "(", ")">>,
       <<"test", "A", "(", ")">>,
       <<"test", "A", "(", "uint256", ")">>,
       <<"test", "C", "(", "uint256", ")">>,
       <<"test", "Fail", "B", "(", ")">> >>

Rank(str) == CHOOSE i \in 1..Len(StringOrder) : StringOrder[i] = str

(* BTreeMap::iter().next(): the least key *)
FirstKey(m) == CHOOSE k \in DOMAIN m : \A o \in DOMAIN m : Rank(k) <= Rank(o)

(* TestKind::Fuzz(cases): the calldata of the cases a fuzz test ran, in the
   order they ran *)
FuzzCases(sig) == [i \in 1..FuzzRuns |-> <<sig, i>>]

(* custom_run: what the debugger is run on, given the map test() returned;
   None where an unwrap or expect panics *)
DebugTarget(m) ==
    IF DOMAIN m = {} THEN None
    ELSE LET id == FirstKey(m)
             sig == FirstKey(m[id].test_results)
             r == m[id].test_results[sig]
         IN  IF r.kind = "Fuzz"
             THEN IF r.counterexample # None
                  THEN Some([id |-> id, sig |-> Unwrap(r.counterexample)])
                  ELSE IF FuzzCases(sig) = <<>> THEN None
                       ELSE Some([id |-> id, sig |-> FuzzCases(sig)[1]])
             ELSE Some([id |-> id, sig |-> sig])

InitDebug ==
    /\ BuiltRunner(SingleVersionIds, None)
    /\ fork = fork_config
    /\ filter \in DebugFilters
    /\ include_fuzz_tests \in BOOLEAN
    /\ stream_on = FALSE
    /\ backend = None
    /\ calls = 0
    /\ ran = EmptyMap
    /\ stream = <<>>
    /\ results = EmptyMap
    /\ pc = "built"
    /\ received = 0
    /\ cli_results = EmptyMap
    /\ cli_pc = "parsed"
    /\ allow_failure = FALSE
    /\ exit_code = None
    /\ NoProbe
    /\ NoTrace
    /\ NoDebugger
    /\ NoTestUtils

(* custom_run with --debug re: the test pattern becomes re, the matching
   tests are counted; with one match test(&filter, None, true) is entered,
   else the error naming the count is returned *)
DebugCount ==
    /\ cli_pc = "parsed"
    /\ pc = "built"
    /\ \E re \in DebugRegexes :
          LET f == [filter EXCEPT !.test_pattern = Some(re)]
          IN  /\ filter' = f
              /\ IF count_filtered_tests(contracts, f) = 1
                 THEN /\ cli_pc' = "debug_run"
                      /\ cli_error' = None
                      /\ include_fuzz_tests' = TRUE
                      /\ backend' = fork
                      /\ fork' = None
                      /\ calls' = calls + 1
                      /\ pc' = "running"
                 ELSE /\ cli_pc' = "err"
                      /\ cli_error' = Some(count_filtered_tests(contracts, f))
                      /\ UNCHANGED <<include_fuzz_tests, backend, fork, calls, pc>>
    /\ UNCHANGED <<compiled, contracts, known_contracts, settings, fork_config, stream_on, ran, stream,
                   results, received, cli_results, allow_failure, exit_code, filterVars,
                   traceVars, debugged, utilVars>>

(* custom_run after test() returned: pick the single result, run the debugger *)
LaunchDebugger ==
    /\ cli_pc = "debug_run"
    /\ pc = "returned"
    /\ IF DebugTarget(results) = None
       THEN cli_pc' = "panicked" /\ debugged' = None
       ELSE cli_pc' = "ok" /\ debugged' = DebugTarget(results)
    /\ UNCHANGED <<runnerVars, callVars, ran, stream, results, pc, received, cli_results,
                   allow_failure, exit_code, filterVars, traceVars, cli_error, utilVars>>

NextDebug ==
    \/ DebugCount
    \/ \E id \in ArtifactIds : RunSuite(id)
    \/ Return
    \/ LaunchDebugger

SpecDebug == InitDebug /\ [][NextDebug]_vars

-----------------------------------------------------------------------------
(* cli/test-utils: TestProject::new and NEXT_ID.  The specification
   SpecProject lets the threads of the test harness create projects *)

MaxThreads == 2
MaxProjects == 3

(* the threads of the test harness *)
Threads == 1..MaxThreads

(* the names handed to TestProject::new *)
ProjectNames == {<<"init">>, <<"init", "-", "0">>}

(* a fetch_add whose update is lost *)
fetch_add_lost(counter, n) == counter

(* AtomicUsize::fetch_add: the new value of the counter (the call returns the
   old one) *)
fetch_add(counter, n) == counter + n

(* format!("{}-{}", name, id) *)
ProjectName(name, id) == name \o <<"-", ToString(id)>>

(* no thread is inside a TestCommand operation, the lock is free *)
NoCommands ==
    /\ cwd = <<>>
    /\ lock_holder = 0
    /\ commands = <<>>
    /\ tpc = EmptyMap

(* forge itself is not running: no runner, no filter, no CLI *)
NoForge ==
    /\ compiled = EmptyMap
    /\ contracts = EmptyMap
    /\ known_contracts = EmptyMap
    /\ settings = None
    /\ fork_config = None
    /\ fork = None
    /\ filter = NoFilter
    /\ include_fuzz_tests = FALSE
    /\ stream_on = FALSE
    /\ backend = None
    /\ calls = 0
    /\ ran = EmptyMap
    /\ stream = <<>>
    /\ results = EmptyMap
    /\ pc = "build"
    /\ NoTrace
    /\ NoDebugger
    /\ received = 0
    /\ cli_results = EmptyMap
    /\ cli_pc = "none"
    /\ allow_failure = FALSE
    /\ exit_code = None
    /\ NoProbe

InitProject ==
    /\ NoForge
    /\ NoCommands
    /\ next_id = 0
    /\ creating = [t \in Threads |-> None]
    /\ projects = <<>>

(* TestProject::new, first statement: the id is taken from NEXT_ID *)
NewFetchId(t) ==
    /\ creating[t] = None
    /\ next_id < MaxProjects
    /\ \E name \in ProjectNames :
          creating' = [creating EXCEPT ![t] = Some([name |-> name, id |-> next_id])]
    /\ next_id' = fetch_add(next_id, 1)
    /\ UNCHANGED <<runnerVars, callVars, ran, stream, results, pc, cliVars, filterVars,
                   traceVars, debugVars, projects, lockVars>>

(* TestProject::new, the rest: the TempProject named "<name>-<id>" is made *)
NewProject(t) ==
    /\ creating[t] # None
    /\ projects' = Append(projects,
                          [name |-> Unwrap(creating[t]).name,
                           id |-> Unwrap(creating[t]).id,
                           project |-> ProjectName(Unwrap(creating[t]).name,
                                                   Unwrap(creating[t]).id)])
    /\ creating' = [creating EXCEPT ![t] = None]
    /\ UNCHANGED <<runnerVars, callVars, ran, stream, results, pc, cliVars, filterVars,
                   traceVars, debugVars, next_id, lockVars>>

NextProject == \E t \in Threads : NewFetchId(t) \/ NewProject(t)

SpecProject == InitProject /\ [][NextProject]_vars

-----------------------------------------------------------------------------
(* cli/test-utils: TestCommand and CURRENT_DIR_LOCK.  The specification
   SpecLock lets the threads of the test harness create commands, change the
   current directory through them and drop them.  A thread is at "idle"
   between operations, at "*_lock" while it waits in CURRENT_DIR_LOCK.lock(),
   and at "*_locked" once it has the guard.  A TestCommand is modelled by its
   owner thread, saved_cwd and current_dir_lock; the process::Command it wraps
   plays no part in the current directory of the test process *)

MaxCommands == 2

(* the directory the test process starts in *)
OrigDir == "target/debug/deps"

(* the directories handed to set_current_dir *)
TargetDirs == {"prj-0", "prj-1"}

Bins == {"forge", "cast"}

IdleThread == [at |-> "idle", cmd |-> 0, dir |-> OrigDir, bin |-> "forge"]

(* the live commands of the thread t *)
CommandsOf(t) == {c \in 1..Len(commands) : commands[c].alive /\ commands[c].owner = t}

InitLock ==
    /\ NoForge
    /\ next_id = 0
    /\ creating = EmptyMap
    /\ projects = <<>>
    /\ cwd = OrigDir
    /\ lock_holder = 0
    /\ commands = <<>>
    /\ tpc = [t \in Threads |-> IdleThread]

(* a forge_command that reads the current directory without the lock *)
StartCommandUnlocked(t, bin) ==
    /\ tpc[t].at = "idle"
    /\ Len(commands) < MaxCommands
    /\ commands' = Append(commands, [owner |-> t, saved_cwd |-> cwd,
                                     current_dir_lock |-> FALSE, alive |-> TRUE])
    /\ UNCHANGED <<runnerVars, callVars, ran, stream, results, pc, cliVars, filterVars,
                   traceVars, debugVars, projectVars, cwd, lock_holder, tpc>>

(* forge_command and cast_command up to CURRENT_DIR_LOCK.lock() *)
StartCommand(t, bin) ==
    /\ tpc[t].at = "idle"
    /\ Len(commands) < MaxCommands
    /\ tpc' = [tpc EXCEPT ![t] = [IdleThread EXCEPT !.at = "new_lock", !.bin = bin]]
    /\ UNCHANGED <<runnerVars, callVars, ran, stream, results, pc, cliVars, filterVars,
                   traceVars, debugVars, projectVars, cwd, lock_holder, commands>>

forge_command(t) == StartCommand(t, "forge")

cast_command(t) == StartCommand(t, "cast")

(* CURRENT_DIR_LOCK.lock() returns: the mutex was free and the thread has the
   guard; in set_current_dir the guard goes into the command *)
Lock(t) ==
    /\ tpc[t].at \in {"new_lock", "set_lock", "drop_lock"}
    /\ lock_holder = 0
    /\ lock_holder' = t
    /\ tpc' = [tpc EXCEPT ![t].at = IF tpc[t].at = "new_lock" THEN "new_locked"
                                   ELSE IF tpc[t].at = "set_lock" THEN "set_locked"
                                   ELSE "drop_locked"]
    /\ commands' = IF tpc[t].at = "set_lock"
                   THEN [commands EXCEPT ![tpc[t].cmd].current_dir_lock = TRUE]
                   ELSE commands
    /\ UNCHANGED <<runnerVars, callVars, ran, stream, results, pc, cliVars, filterVars,
                   traceVars, debugVars, projectVars, cwd>>

(* forge_command and cast_command under the lock: the TestCommand is made
   with the current directory as saved_cwd, then _lock goes out of scope *)
NewCommand(t) ==
    /\ tpc[t].at = "new_locked"
    /\ commands' = Append(commands, [owner |-> t, saved_cwd |-> cwd,
                                     current_dir_lock |-> FALSE, alive |-> TRUE])
    /\ lock_holder' = 0
    /\ tpc' = [tpc EXCEPT ![t] = IdleThread]
    /\ UNCHANGED <<runnerVars, callVars, ran, stream, results, pc, cliVars, filterVars,
                   traceVars, debugVars, projectVars, cwd>>

(* set_current_dir up to CURRENT_DIR_LOCK.lock(): the guard the command has,
   if any, is dropped *)
set_current_dir(t, c, p) ==
    /\ tpc[t].at = "idle"
    /\ c \in CommandsOf(t)
    /\ commands' = [commands EXCEPT ![c].current_dir_lock = FALSE]
    /\ lock_holder' = IF commands[c].current_dir_lock THEN 0 ELSE lock_holder
    /\ tpc' = [tpc EXCEPT ![t] = [IdleThread EXCEPT !.at = "set_lock", !.cmd = c, !.dir = p]]
    /\ UNCHANGED <<runnerVars, callVars, ran, stream, results, pc, cliVars, filterVars,
                   traceVars, debugVars, projectVars, cwd>>

(* set_current_dir under the lock: std::env::set_current_dir(p) *)
SetChdir(t) ==
    /\ tpc[t].at = "set_locked"
    /\ cwd' = tpc[t].dir
    /\ tpc' = [tpc EXCEPT ![t] = IdleThread]
    /\ UNCHANGED <<runnerVars, callVars, ran, stream, results, pc, cliVars, filterVars,
                   traceVars, debugVars, projectVars, lock_holder, commands>>

(* Drop for TestCommand, up to the guard: the command's own guard is taken,
   or else CURRENT_DIR_LOCK.lock() is called *)
Drop(t, c) ==
    /\ tpc[t].at = "idle"
    /\ c \in CommandsOf(t)
    /\ commands' = [commands EXCEPT ![c].current_dir_lock = FALSE]
    /\ tpc' = [tpc EXCEPT ![t] = [IdleThread EXCEPT
                                     !.at = IF commands[c].current_dir_lock
                                            THEN "drop_locked" ELSE "drop_lock",
                                     !.cmd = c]]
    /\ UNCHANGED <<runnerVars, callVars, ran, stream, results, pc, cliVars, filterVars,
                   traceVars, debugVars, projectVars, cwd, lock_holder>>

(* Drop under the lock: set_current_dir(saved_cwd), then _lock goes out of
   scope and the command is gone *)
DropChdir(t) ==
    /\ tpc[t].at = "drop_locked"
    /\ cwd' = commands[tpc[t].cmd].saved_cwd
    /\ commands' = [commands EXCEPT ![tpc[t].cmd].alive = FALSE]
    /\ lock_holder' = 0
    /\ tpc' = [tpc EXCEPT ![t] = IdleThread]
    /\ UNCHANGED <<runnerVars, callVars, ran, stream, results, pc, cliVars, filterVars,
                   traceVars, debugVars, projectVars>>

NextLock ==
    \E t \in Threads :
        \/ forge_command(t)
        \/ cast_command(t)
        \/ Lock(t)
        \/ NewCommand(t)
        \/ \E c \in 1..MaxCommands, p \in TargetDirs : set_current_dir(t, c, p)
        \/ SetChdir(t)
        \/ \E c \in 1..MaxCommands : Drop(t, c)
        \/ DropChdir(t)

SpecLock == InitLock /\ [][NextLock]_vars

-----------------------------------------------------------------------------
(* Vocabulary of the properties *)

Returned == pc = "returned"

(* a test function of the suite is admitted by the filter *)
HasAdmittedTest(abi, f) ==
    \E func \in abi : StartsWith(func.name, <<"test">>) /\ matches_test(f, Signature(func))

(* the number of test results of a map of suite results *)
TotalTests(m) == Cardinality(UNION {{k} \X DOMAIN m[k].test_results : k \in DOMAIN m})

Suite(r) == [test_results |-> r.test_results]

(* the suite was sent on the stream *)
Streamed(id) == \E i \in 1..Len(stream) : stream[i] = <<Identifier(id), Suite(ran[id])>>

(* the final map holds the suite's result under the suite's identifier *)
InResults(id) ==
    /\ Identifier(id) \in DOMAIN results
    /\ results[Identifier(id)] = Suite(ran[id])

(* C1: whenever test() has returned with include_fuzz_tests = true and every
   suite it ran deployed and set up successfully, count_filtered_tests(filter)
   equals the number of test results in the returned map. *)
C1_CountEqualsResults ==
    (Returned /\ include_fuzz_tests /\ \A id \in DOMAIN ran : ran[id].outcome = "ok")
        => count_filtered_tests(contracts, filter) = TotalTests(results)

(* C2: a suite is handed to a ContractRunner only if its path and its
   contract name pass the filter and one of its test functions passes
   matches_test, and once test() has returned every such suite was handed to
   one. *)
C2_RunsIffAdmitted ==
    \A id \in DOMAIN contracts :
        LET admitted == /\ matches_path(filter, id.source)
                        /\ matches_contract(filter, id.name)
                        /\ HasAdmittedTest(contracts[id], filter)
        IN  /\ id \in DOMAIN ran => admitted
            /\ (Returned /\ admitted) => id \in DOMAIN ran

(* C3: with a stream sender, once test() has returned the streamed pairs are
   exactly the entries of the returned map, each sent once. *)
C3_StreamEqualsMap ==
    (Returned /\ stream_on) =>
        /\ Len(stream) = Cardinality(DOMAIN results)
        /\ \A i \in 1..Len(stream) :
              /\ stream[i][1] \in DOMAIN results
              /\ results[stream[i][1]] = stream[i][2]
        /\ \A k \in DOMAIN results : \E i \in 1..Len(stream) : stream[i] = <<k, results[k]>>

(* C4: no two suite results sent on the stream carry the same suite
   identifier. *)
C4_UniqueSuiteIds ==
    \A i, j \in 1..Len(stream) : i # j => stream[i][1] # stream[j][1]

(* C5 as claimed: when the runner of one selected suite fails, the returned
   map holds the SuiteResult of every other selected suite whose runner
   returned one. *)
C5_OthersAllPresent ==
    Returned =>
        \A bad \in DOMAIN ran : ran[bad].outcome # "ok" =>
            \A id \in DOMAIN ran \ {bad} : ran[id].ok => InResults(id)

(* C5 as amended: when the runner of one selected suite fails, test() still
   returns, and for every other selected suite whose runner returned a
   non-empty SuiteResult the returned map has an entry under the suite's
   identifier that holds this SuiteResult or the one of an artifact of the
   same source and name with a higher version. *)
C5_OthersKept ==
    Returned =>
        \A bad \in DOMAIN ran : ran[bad].outcome # "ok" =>
            \A id \in DOMAIN ran \ {bad} : IsKept(ran[id]) =>
                /\ Identifier(id) \in DOMAIN results
                /\ \E o \in DOMAIN ran :
                      /\ Identifier(o) = Identifier(id)
                      /\ o.version >= id.version
                      /\ IsKept(ran[o])
                      /\ results[Identifier(id)] = Suite(ran[o])

(* C5 witness: test() has returned, the runner of one suite returned an
   error, and the result of another suite is in the map. *)
C5_Witness ==
    /\ Returned
    /\ \E bad \in DOMAIN ran, id \in DOMAIN ran :
          /\ ran[bad].outcome = "err"
          /\ id # bad
          /\ IsKept(ran[id])
          /\ InResults(id)

(* C6: a suite whose deployment reverted is in the returned map (and on the
   stream, if there is one) with exactly one test result, constructor(),
   failed, carrying the revert reason. *)
C6_DeployFailureSurfaced ==
    Returned =>
        \A id \in DOMAIN ran : ran[id].outcome = "deploy_revert" =>
            /\ Identifier(id) \in DOMAIN results
            /\ DOMAIN results[Identifier(id)].test_results = {SigConstructor}
            /\ ~results[Identifier(id)].test_results[SigConstructor].success
            /\ results[Identifier(id)].test_results[SigConstructor].reason = Some(RevertReason)
            /\ stream_on => Streamed(id)

(* C7: the SuiteResult of a suite whose setUp() reverted holds exactly one
   test result, setUp(), failed, with reason "Setup failed: " followed by the
   revert reason, and none of its test functions was executed. *)
C7_SetupFailure ==
    \A id \in DOMAIN ran : ran[id].outcome = "setup_revert" =>
        /\ DOMAIN ran[id].test_results = {SigSetUp}
        /\ ~ran[id].test_results[SigSetUp].success
        /\ ran[id].test_results[SigSetUp].reason = Some(<<"Setup failed: ">> \o RevertReason)
        /\ ran[id].executed = {}

(* C7 witness: the setUp() of a suite with test functions the filter admits
   has reverted. *)
C7_Witness ==
    \E id \in DOMAIN ran :
        /\ ran[id].outcome = "setup_revert"
        /\ DispatchedTests(contracts[id], filter, include_fuzz_tests) # {}

(* C8: once test() has returned, a suite is in the returned map iff one of
   its test functions is admitted by the filter and its setUp succeeded or
   failed. *)
C8_AppearsIffAdmitted ==
    Returned =>
        \A id \in DOMAIN contracts :
            Identifier(id) \in DOMAIN results <=>
                /\ HasAdmittedTest(contracts[id], filter)
                /\ id \in DOMAIN ran
                /\ ran[id].outcome \in {"ok", "setup_revert"}

(* C9 as claimed: every key of the test results of every suite of the output
   (stream and returned map), synthetic entries included, is accepted by
   matches_test. *)
C9_AllKeysAccepted ==
    /\ \A k \in DOMAIN results : \A s \in DOMAIN results[k].test_results :
          matches_test(filter, s)
    /\ \A i \in 1..Len(stream) : \A s \in DOMAIN stream[i][2].test_results :
          matches_test(filter, s)

(* C9 as amended: every key of the test results of every suite of the output
   other than the synthetic entries setUp() and constructor() is a signature
   accepted by matches_test. *)
C9_TestKeysAccepted ==
    /\ \A k \in DOMAIN results : \A s \in DOMAIN results[k].test_results :
          s \notin {SigSetUp, SigConstructor} => matches_test(filter, s)
    /\ \A i \in 1..Len(stream) : \A s \in DOMAIN stream[i][2].test_results :
          s \notin {SigSetUp, SigConstructor} => matches_test(filter, s)

(* C9 witness: a filter that rejects a test function of the suite, and the
   returned map holds a result of another test function of that suite. *)
C9_Witness ==
    /\ Returned
    /\ \E id \in DOMAIN ran :
          /\ \E func \in contracts[id] :
                StartsWith(func.name, <<"test">>) /\ ~matches_test(filter, Signature(func))
          /\ InResults(id)
          /\ \E s \in DOMAIN results[Identifier(id)].test_results :
                s \notin {SigSetUp, SigConstructor}

(* C10 as claimed: a test result whose signature begins with testFail is a
   success exactly when the test call reverted. *)
C10_TestFailIffReverted ==
    \A id \in DOMAIN ran : \A s \in DOMAIN ran[id].test_results :
        StartsWith(s, <<"test", "Fail">>) =>
            (ran[id].test_results[s].success <=> ran[id].call = "revert")

(* C10 as amended: a test result whose signature begins with testFail is a
   success exactly when the test call reverted or left the DSTest failed flag
   set. *)
C10_TestFailInverts ==
    \A id \in DOMAIN ran : \A s \in DOMAIN ran[id].test_results :
        StartsWith(s, <<"test", "Fail">>) =>
            (ran[id].test_results[s].success <=> ran[id].call \in {"revert", "ds_fail"})

(* C10 witness: a testFail function whose call did not revert and set the
   DSTest failed flag has a result. *)
C10_Witness ==
    \E id \in DOMAIN ran : \E s \in DOMAIN ran[id].test_results :
        StartsWith(s, <<"test", "Fail">>) /\ ran[id].call = "ds_fail"

(* what the test call behind a result did *)
CallReverted(id) == ran[id].outcome \in {"deploy_revert", "setup_revert"} \/ ran[id].call = "revert"
CallSetFlag(id) == ran[id].outcome = "ok" /\ ran[id].call = "ds_fail"
IsRejectOverflow(r) == r.kind = "Fuzz" /\ r.reason = Some(TooManyRejects)

(* C11 as claimed: a test result whose signature does not begin with testFail
   is a success exactly when the call did not revert and the DSTest failed
   flag is not set after it. *)
C11_SuccessIffCleanCall ==
    \A id \in DOMAIN ran : \A s \in DOMAIN ran[id].test_results :
        ~StartsWith(s, <<"test", "Fail">>) =>
            (ran[id].test_results[s].success <=> (~CallReverted(id) /\ ~CallSetFlag(id)))

(* C11 as amended: the same, except for a fuzz result that stopped because
   the fuzzer rejected too many inputs, which is a failure although no call
   reverted or set the flag. *)
C11_SuccessIffCleanCallOrAborted ==
    \A id \in DOMAIN ran : \A s \in DOMAIN ran[id].test_results :
        ~StartsWith(s, <<"test", "Fail">>) =>
            IF IsRejectOverflow(ran[id].test_results[s])
            THEN ~ran[id].test_results[s].success
            ELSE ran[id].test_results[s].success <=> (~CallReverted(id) /\ ~CallSetFlag(id))

(* C11 witness: a standard test without the testFail prefix whose call
   returned with the DSTest failed flag set has a result. *)
C11_Witness ==
    \E id \in DOMAIN ran : \E s \in DOMAIN ran[id].test_results :
        /\ ~StartsWith(s, <<"test", "Fail">>)
        /\ ran[id].test_results[s].kind = "Standard"
        /\ CallSetFlag(id)

(* C12 as claimed: a fuzz result is a success iff it carries no
   counterexample. *)
C12_SuccessIffNoCounterexample ==
    \A id \in DOMAIN ran : \A s \in DOMAIN ran[id].test_results :
        ran[id].test_results[s].kind = "Fuzz" =>
            (ran[id].test_results[s].success <=> ran[id].test_results[s].counterexample = None)

(* C12 as amended: a successful fuzz result carries no counterexample, and a
   failed one carries a counterexample unless it stopped because the fuzzer
   rejected too many inputs: then it has that reason and no counterexample. *)
C12_CounterexampleUnlessAborted ==
    \A id \in DOMAIN ran : \A s \in DOMAIN ran[id].test_results :
        LET r == ran[id].test_results[s]
        IN  r.kind = "Fuzz" =>
                /\ r.success => r.counterexample = None
                /\ (~r.success /\ ~IsRejectOverflow(r)) => r.counterexample # None
                /\ IsRejectOverflow(r) => (~r.success /\ r.counterexample = None)

(* C12 witness: a fuzz test stopped because too many inputs were rejected. *)
C12_Witness ==
    \E id \in DOMAIN ran : \E s \in DOMAIN ran[id].test_results :
        IsRejectOverflow(ran[id].test_results[s])

(* an abstract contract: the compiler emitted empty creation bytecode *)
IsAbstract(c) == c.bytecode = "empty"

(* C13: an abstract contract, even one that has test functions and passes
   the filter, is never deployable, never run and never a key of the map
   test() returns; a concrete test contract of the same build that was run
   and kept is a key of that map. *)
C13_AbstractNeverAppears ==
    /\ \A id \in DOMAIN compiled :
          IsAbstract(compiled[id]) =>
              /\ id \notin DOMAIN contracts
              /\ id \notin DOMAIN ran
              /\ Identifier(id) \notin DOMAIN results
    /\ Returned =>
          \A id \in DOMAIN compiled :
              (~IsAbstract(compiled[id]) /\ IsDeployable(compiled[id])
                 /\ id \in DOMAIN ran /\ IsKept(ran[id]))
                  => Identifier(id) \in DOMAIN results

(* C13 witness: test() returned on a build holding an abstract contract with
   test functions that passes the filter and a concrete test contract of the
   same source file; the concrete one is a key of the map. *)
C13_Witness ==
    /\ Returned
    /\ DOMAIN compiled = BuildIds
    /\ IsAbstract(compiled[AbstractBase])
    /\ compiled[AbstractBase].ctor = None
    /\ HasAdmittedTest(compiled[AbstractBase].abi, filter)
    /\ matches_contract(filter, AbstractBase.name)
    /\ matches_path(filter, AbstractBase.source)
    /\ Identifier(ConcreteTest) \in DOMAIN results
    /\ Identifier(AbstractBase) \notin DOMAIN results

(* C14 as claimed: every test() call on a runner runs against the
   environment the runner was built for: the db backend of the call serves the
   fork the builder was configured with. *)
C14_SameEnvironment == pc \in {"running", "returned"} => backend = fork_config

(* C15: sending on the stream never waits for the consumer: whatever the
   consumer has taken so far, every selected suite not yet run can run and
   send its result, every suite run and kept has been sent, and once all
   have run test() can return. *)
C15_SendNeverWaits ==
    (stream_on /\ pc = "running") =>
        /\ \A id \in SelectedSuites(contracts, filter) \ DOMAIN ran :
              \A outcome \in Outcomes, call \in Calls :
                  ValidEnv(id, outcome, call) => ENABLED RunSuiteWith(id, outcome, call)
        /\ \A id \in DOMAIN ran : IsKept(ran[id]) => Streamed(id)
        /\ SelectedSuites(contracts, filter) \subseteq DOMAIN ran => ENABLED Return

(* C15 witness: test() returned after sending two results of which the
   consumer had taken none. *)
C15_Witness == Returned /\ cli_pc = "consuming" /\ received = 0 /\ Len(stream) >= 2

(* C16 as claimed: when the thread running test() panicked, the CLI test
   function does not return Ok with a TestOutcome. *)
C16_InvalidRunIsError == pc = "panicked" => cli_pc \notin {"ok", "ensured", "exited"}

(* C17: ensure_ok exits with code 1 iff allow_failure is false and some test
   result of the outcome failed; otherwise it returns Ok without exiting. *)
C17_ExitIffDisallowedFailure ==
    cli_pc \in {"ensured", "exited"} =>
        /\ (cli_pc = "exited") <=>
              (~allow_failure /\ \E k \in DOMAIN cli_results :
                                    \E s \in DOMAIN cli_results[k].test_results :
                                        ~cli_results[k].test_results[s].success)
        /\ (cli_pc = "exited") <=> (exit_code = Some(1))
        /\ (cli_pc = "ensured") <=> (exit_code = None)

(* C17 witness: ensure_ok exited with code 1 on an outcome that has a failing
   test while failures are not allowed. *)
C17_Witness == cli_pc = "exited" /\ ~allow_failure /\ Cardinality(failures(Outcome)) > 0

(* C18: successes() and failures() partition tests(): no result is in both,
   every result is in one, and the counts add up. *)
C18_Partition ==
    cli_pc \in {"ok", "ensured", "exited"} =>
        /\ successes(Outcome) \cap failures(Outcome) = {}
        /\ successes(Outcome) \cup failures(Outcome) = tests(Outcome)
        /\ Cardinality(successes(Outcome)) + Cardinality(failures(Outcome))
              = Cardinality(tests(Outcome))

(* C18 witness: an outcome with a succeeding test and with a failing test
   that gives no reason. *)
C18_Witness ==
    /\ cli_pc = "ok"
    /\ successes(Outcome) # {}
    /\ \E t \in failures(Outcome) : t[3].reason = None

(* every configured regex among the fields pos matches the name and no
   configured regex among the fields neg does *)
AllRegexHold(f, pos, neg, name) ==
    /\ \A field \in pos : f[field] # None => IsMatch(Unwrap(f[field]), name)
    /\ \A field \in neg : f[field] # None => ~IsMatch(Unwrap(f[field]), name)

(* the same for globs *)
AllGlobHold(f, pos, neg, name) ==
    /\ \A field \in pos : f[field] # None => GlobMatch(Unwrap(f[field]), name)
    /\ \A field \in neg : f[field] # None => ~GlobMatch(Unwrap(f[field]), name)

(* C19: each of matches_test, matches_contract and matches_path returns the
   conjunction of the conditions of its configured fields: every configured
   positive pattern matches and no configured negative pattern does; a method
   none of whose fields is configured returns true. *)
C19_AndOfConfigured ==
    verdict # None =>
        LET v == Unwrap(verdict)
            p == Unwrap(probe)
        IN  /\ v.test <=> AllRegexHold(filter, {"pattern", "test_pattern"},
                                       {"test_pattern_inverse"}, p.test)
            /\ v.contract <=> AllRegexHold(filter, {"contract_pattern"},
                                           {"contract_pattern_inverse"}, p.contract)
            /\ v.path <=> AllGlobHold(filter, {"path_pattern"},
                                      {"path_pattern_inverse"}, to_string_lossy(p.path))
            /\ (\A field \in {"pattern", "test_pattern", "test_pattern_inverse"} :
                    filter[field] = None) => v.test
            /\ (\A field \in {"contract_pattern", "contract_pattern_inverse"} :
                    filter[field] = None) => v.contract
            /\ (\A field \in {"path_pattern", "path_pattern_inverse"} :
                    filter[field] = None) => v.path

(* C19 witness: matches_test was applied with a positive pattern that matches
   the name and a negative pattern that matches it too, and returned false. *)
C19_Witness ==
    /\ verdict # None
    /\ filter.test_pattern # None
    /\ IsMatch(Unwrap(filter.test_pattern), Unwrap(probe).test)
    /\ filter.test_pattern_inverse # None
    /\ IsMatch(Unwrap(filter.test_pattern_inverse), Unwrap(probe).test)
    /\ ~Unwrap(verdict).test

(* C20 as claimed: for a Filter in which a field other than the legacy
   pattern is set, matches_test returns what it returns with the legacy
   pattern absent. *)
C20_LegacyOnlyAlone ==
    (verdict # None /\ \E field \in OtherFields : filter[field] # None) =>
        (Unwrap(verdict).test
            <=> matches_test([filter EXCEPT !.pattern = None], Unwrap(probe).test))

(* C21 as claimed: is_match on any path is whether the positive glob matches
   the path if one is set, else whether the negative glob does not match it
   if one is set, else whether the path has the suffix .t.sol. *)
C21_IsMatchThreeWay ==
    verdict # None =>
        LET p == Unwrap(probe).path
        IN  Unwrap(verdict).file <=>
                IF filter.path_pattern # None THEN GlobMatch(Unwrap(filter.path_pattern), p)
                ELSE IF filter.path_pattern_inverse # None
                THEN ~GlobMatch(Unwrap(filter.path_pattern_inverse), p)
                ELSE is_sol_test(p)

(* build() returned a runner *)
Built == pc \notin {"build", "build_failed"}

(* the constructor is absent or takes no inputs *)
CtorTakesNothing(c) == c.ctor = None \/ c.ctor = Some(0)

(* C22 as claimed: after build() a contract is in the deployable set iff its
   constructor is absent or takes no inputs, some function name starts with
   "test" and its creation bytecode is fully linked. *)
C22_DeployableIffTestSuite ==
    Built => \A id \in DOMAIN compiled :
        id \in DOMAIN contracts <=>
            /\ CtorTakesNothing(compiled[id])
            /\ IsTestSuite(compiled[id].abi)
            /\ compiled[id].bytecode # "unlinked"

(* C22 as amended: the same, with the further condition that the creation
   bytecode is not empty (the contract is not abstract); a contract whose
   constructor takes inputs is never in the deployable set. *)
C22_DeployableIffConcreteTestSuite ==
    Built => \A id \in DOMAIN compiled :
        /\ id \in DOMAIN contracts <=>
              /\ CtorTakesNothing(compiled[id])
              /\ IsTestSuite(compiled[id].abi)
              /\ compiled[id].bytecode = "bytes"
        /\ ~CtorTakesNothing(compiled[id]) => id \notin DOMAIN contracts

(* C22 witness: build() returned a runner for a concrete test contract, which
   is deployable, and one with test functions whose constructor takes an
   input, which is not. *)
C22_Witness ==
    /\ Built
    /\ DOMAIN compiled = BuildIds
    /\ ConcreteTest \in DOMAIN contracts
    /\ compiled[AbstractBase] = Compiled(AbiCore, Some(1), "bytes", Some("bytes"))
    /\ AbstractBase \notin DOMAIN contracts

(* C23 as claimed: after build() every compiled contract with non-empty
   deployed bytecode is a key of known_contracts, whatever its creation
   bytecode and whether or not it is a test suite; one without a test
   function is not in the deployable set. *)
C23_KnownIffDeployedCode ==
    Built => \A id \in DOMAIN compiled :
        compiled[id].deployed = Some("bytes") =>
            /\ id \in DOMAIN known_contracts
            /\ ~IsTestSuite(compiled[id].abi) => id \notin DOMAIN contracts

(* C24: every entry of the deployable set has fully linked creation
   bytecode: a contract whose creation bytecode is still unlinked after
   linking is never inserted. *)
C24_DeployableIsLinked ==
    Built => \A id \in DOMAIN contracts : compiled[id].bytecode # "unlinked"

(* C24 witness: build() returned a runner although the creation bytecode of
   a test contract without constructor inputs was left unlinked; that contract
   is not deployable, the other one is. *)
C24_Witness ==
    /\ Built
    /\ \E id \in DOMAIN compiled :
          /\ compiled[id].bytecode = "unlinked"
          /\ IsTestSuite(compiled[id].abi)
          /\ CtorTakesNothing(compiled[id])
          /\ id \notin DOMAIN contracts
    /\ DOMAIN contracts # {}

(* C25 as claimed: a link error in one contract does not make build() fail
   as a whole: build() returns a runner in which every other test suite is
   deployable. *)
C25_LinkErrorIsLocal ==
    /\ pc # "build_failed"
    /\ Built => \A id \in DOMAIN compiled :
          (CtorTakesNothing(compiled[id]) /\ IsTestSuite(compiled[id].abi)
             /\ compiled[id].bytecode = "bytes") => id \in DOMAIN contracts

(* the consumer loop has ended: every message was handled *)
LoopEnded == cli_pc \in {"ok", "ensured", "exited"}

(* the test results the consumer handled, each with a kind of trace *)
HandledTraces ==
    UNION {{k} \X (DOMAIN cli_results[k].test_results) \X TraceKinds :
               k \in DOMAIN cli_results}

(* C26 as claimed: below verbosity 3 no trace is printed; at 3 and 4 only
   traces of failed tests, at 4 their setup trace too; from 5 on every trace
   of every test, of every kind. *)
C26_TracesByVerbosity ==
    (LoopEnded /\ Tracing) => \A t \in HandledTraces :
        LET failed == ~cli_results[t[1]].test_results[t[2]].success
        IN  t \in printed <=>
                CASE verbosity < 3 -> FALSE
                  [] verbosity = 3 -> failed /\ t[3] = "Execution"
                  [] verbosity = 4 -> failed /\ t[3] \in {"Setup", "Execution"}
                  [] OTHER -> TRUE

(* C26 as amended: below 3 no trace is printed; at 3 the execution traces of
   failed tests; at 4 the execution traces of every test and the setup traces
   of failed tests; from 5 on the execution and setup traces of every test; a
   deployment trace is never printed. *)
C26_ExecutionAndSetupByVerbosity ==
    LoopEnded => \A t \in HandledTraces :
        LET failed == ~cli_results[t[1]].test_results[t[2]].success
        IN  t \in printed <=>
                /\ Tracing
                /\ CASE verbosity < 3 -> FALSE
                     [] verbosity = 3 -> failed /\ t[3] = "Execution"
                     [] verbosity = 4 -> t[3] = "Execution" \/ (failed /\ t[3] = "Setup")
                     [] OTHER -> t[3] \in {"Setup", "Execution"}

(* C26 witness: at verbosity 4 the loop printed the execution trace of a test
   that passed and the setup trace of one that failed. *)
C26_Witness ==
    /\ LoopEnded
    /\ verbosity = 4
    /\ \E t \in printed :
          t[3] = "Execution" /\ cli_results[t[1]].test_results[t[2]].success
    /\ \E t \in printed :
          t[3] = "Setup" /\ ~cli_results[t[1]].test_results[t[2]].success

(* C27 as claimed: the executors are built with tracing iff the verbosity
   the user asked for is at least 3. *)
C27_TracingIffVerbose == (cli_pc # "none" /\ pc = "running") => (Tracing <=> verbosity >= 3)

(* C27 as amended: the executors are built with tracing iff the verbosity
   the user asked for is at least 3 or a gas report was asked for. *)
C27_TracingIffVerboseOrGasReport ==
    (cli_pc # "none" /\ pc = "running") => (Tracing <=> (verbosity >= 3 \/ gas_report))

(* C27 witness: a suite ran with tracing for a gas report at a verbosity
   below 3. *)
C27_Witness == gas_report /\ verbosity < 3 /\ Tracing /\ DOMAIN ran # {}

-----------------------------------------------------------------------------
(* --debug *)

(* custom_run has come to the end of its --debug branch *)
DebugEnded == cli_pc \in {"ok", "panicked", "err"}

(* the functions count_filtered_tests counted under the filter at hand *)
CountedTests ==
    {t \in UNION {{id} \X contracts[id] : id \in DOMAIN contracts} :
        /\ matches_path(filter, t[1].source)
        /\ matches_contract(filter, t[1].name)
        /\ matches_test(filter, Signature(t[2]))}

(* the calldata the debugger may be given for the function func *)
CalldataOf(func) ==
    {Signature(func)} \cup {FuzzCases(Signature(func))[i] : i \in 1..FuzzRuns}

(* the result the debugger was started from *)
DebuggedResult ==
    LET id == FirstKey(results)
    IN  results[id].test_results[FirstKey(results[id].test_results)]

(* C28 as claimed: with --debug, suites are executed and the debugger is
   launched if and only if count_filtered_tests, with the debug regex as the
   test pattern, is exactly 1; for every other count custom_run returns the
   error naming the count and no suite is run. *)
C28_DebuggerIffOneMatch ==
    DebugEnded =>
        LET n == count_filtered_tests(contracts, filter)
        IN  /\ n = 1 <=> (cli_pc = "ok" /\ debugged # None /\ calls = 1)
            /\ n # 1 => cli_pc = "err" /\ cli_error = Some(n) /\ DOMAIN ran = {} /\ calls = 0

(* C29 as claimed: with --debug on a fuzz test, the debugger is opened on
   the counterexample calldata if the fuzz test failed, and on the calldata
   of the last fuzz case that was run if it did not fail. *)
C29_FuzzCalldataLastCase ==
    (cli_pc = "ok" /\ DebuggedResult.kind = "Fuzz") =>
        LET sig == FirstKey(results[FirstKey(results)].test_results)
        IN  IF DebuggedResult.success
            THEN Unwrap(debugged).sig = FuzzCases(sig)[FuzzRuns]
            ELSE /\ DebuggedResult.counterexample # None
                 /\ Unwrap(debugged).sig = Unwrap(DebuggedResult.counterexample)

(* C30 as claimed: with --debug and exactly one matching test counted, the
   debugger is always run on that matching test, whatever the outcome of
   running it: custom_run never panics on an empty result map and never
   debugs a different signature. *)
C30_DebugsTheCountedTest ==
    /\ cli_pc # "panicked"
    /\ cli_pc = "ok" =>
          \E t \in CountedTests :
              /\ Unwrap(debugged).id = Identifier(t[1])
              /\ Unwrap(debugged).sig \in CalldataOf(t[2])

-----------------------------------------------------------------------------
(* cli/test-utils *)

(* the ids TestProject::new calls have obtained so far: those of the
   projects made and those of the calls under way *)
ObtainedIds ==
    [i \in 1..Len(projects) |-> projects[i].id]
        \o [k \in 1..Cardinality({t \in DOMAIN creating : creating[t] # None}) |->
               LET busy == {t \in DOMAIN creating : creating[t] # None}
                   t == CHOOSE u \in busy : Cardinality({v \in busy : v < u}) = k - 1
               IN  Unwrap(creating[t]).id]

(* C31: every TestProject::new call, concurrent or sequential, obtains an id
   from NEXT_ID that no other call obtained, so two test projects created
   with the same name never have the same "<name>-<id>" project name. *)
C31_DistinctProjectIds ==
    /\ \A i, j \in 1..Len(ObtainedIds) : i # j => ObtainedIds[i] # ObtainedIds[j]
    /\ \A i, j \in 1..Len(projects) :
          i # j /\ projects[i].name = projects[j].name
              => projects[i].project # projects[j].project

(* two projects of one name exist, made in the opposite order of their ids,
   while a third call is under way *)
C31_Witness ==
    /\ Len(projects) >= 2
    /\ projects[1].name = projects[2].name
    /\ projects[1].id > projects[2].id
    /\ \E t \in DOMAIN creating : creating[t] # None

-----------------------------------------------------------------------------
(* the frame of test() *)

(* C32: test() leaves the runner's deployable contracts, known_contracts,
   sender, fuzzer, evm_spec and evm_opts as build() produced them, however
   many test() calls there were. *)
C32_TestLeavesRunnerFields ==
    calls >= 1 =>
        /\ contracts = build(compiled).deployable
        /\ known_contracts = build(compiled).known
        /\ settings = Some(BuilderSettings)
        /\ evm_verbosity = executor_verbosity(verbosity, gas_report)

(* a second test() call returned on a runner built with a fork: the fork is
   gone from the runner, the fields of the claim are as built *)
C32_Witness ==
    /\ calls = MaxCalls
    /\ pc = "returned"
    /\ fork_config # None
    /\ fork = None
    /\ DOMAIN contracts # {}
    /\ contracts = build(compiled).deployable

-----------------------------------------------------------------------------
(* streaming and returning *)

(* C33 as claimed: for the same runner and filter the results the CLI builds
   from the stream equal the map runner.test returns, in whatever order the
   suites complete and are received. *)
C33_StreamedEqualsReturned ==
    (cli_pc = "ok" /\ pc = "returned") => cli_results = results

(* C34: in streaming mode the consumer loop always terminates: once
   runner.test has finished, normally or by panic, every sender is dropped,
   the loop drains what is left and ends, the thread is joined and the CLI
   test function returns. *)
C34_ConsumerTerminates ==
    (pc \in {"returned", "panicked"}) ~> (cli_pc = "ok" /\ received = Len(stream))

(* the thread panicked after sending a result; the consumer took it and the
   function returned *)
C34_Witness == pc = "panicked" /\ cli_pc = "ok" /\ received >= 1

-----------------------------------------------------------------------------
(* sparse compilation *)

(* C35 as claimed: for every Filter and every source path, if matches_path
   accepts the path then is_source_file (FileFilter::is_match) accepts it
   too. *)
C35_PathAcceptedIsSourceFile ==
    verdict # None => (Unwrap(verdict).path => Unwrap(verdict).file)

(* C35 amended: when a path glob is set (--match-path or --no-match-path)
   and the path is valid Unicode, a path matches_path accepts is accepted
   by is_match too; with no path glob set is_match accepts exactly the
   paths with the suffix .t.sol, while matches_path accepts every path. *)
C35_GlobAcceptedIsSourceFile ==
    verdict # None =>
        LET p == Unwrap(probe).path
        IN  IF filter.path_pattern = None /\ filter.path_pattern_inverse = None
            THEN Unwrap(verdict).path /\ (Unwrap(verdict).file <=> is_sol_test(p))
            ELSE (to_str(p) # None /\ Unwrap(verdict).path) => Unwrap(verdict).file

(* both globs are set, the path is not a .t.sol file, and both methods
   accept it *)
C35_Witness ==
    /\ verdict # None
    /\ filter.path_pattern # None
    /\ filter.path_pattern_inverse # None
    /\ ~is_sol_test(Unwrap(probe).path)
    /\ Unwrap(verdict).path
    /\ Unwrap(verdict).file

-----------------------------------------------------------------------------
(* CURRENT_DIR_LOCK *)

(* the thread t waits in CURRENT_DIR_LOCK.lock() *)
Waiting(t) == tpc[t].at \in {"new_lock", "set_lock", "drop_lock"}

(* the guards of CURRENT_DIR_LOCK in existence: those in a local variable of
   a running operation and those stored in a command *)
LocalGuards == {t \in DOMAIN tpc : tpc[t].at \in {"new_locked", "drop_locked"}}
StoredGuards == {c \in 1..Len(commands) : commands[c].current_dir_lock}

(* the thread t has a guard of CURRENT_DIR_LOCK *)
HoldsGuard(t) == t \in LocalGuards \/ \E c \in StoredGuards : commands[c].owner = t

(* at most one guard exists, and it is with the thread that locked *)
MutualExclusion ==
    /\ Cardinality(LocalGuards) + Cardinality(StoredGuards) <= 1
    /\ \A t \in DOMAIN tpc : HoldsGuard(t) <=> lock_holder = t

(* a step that changes the current directory, or makes a command and so
   reads saved_cwd, is taken by a thread that has the guard *)
OnlyUnderLock ==
    /\ cwd' # cwd => \E t \in DOMAIN tpc : tpc'[t] # tpc[t] /\ HoldsGuard(t)
    /\ Len(commands') > Len(commands) =>
          \E t \in DOMAIN tpc :
              /\ tpc'[t] # tpc[t]
              /\ HoldsGuard(t)
              /\ commands'[Len(commands')].saved_cwd = cwd

(* C36: the current directory is changed by a TestCommand (set_current_dir,
   Drop) only while the acting thread holds CURRENT_DIR_LOCK, at most one
   thread holds the lock at any time, and the saved_cwd of a new command is
   read while holding the lock. *)
C36_CwdOnlyUnderLock == []MutualExclusion /\ [][OnlyUnderLock]_vars

(* a command holds the lock after changing the directory while the other
   thread waits for the lock to make its command *)
C36_Witness ==
    /\ cwd # OrigDir
    /\ StoredGuards # {}
    /\ \E t \in DOMAIN tpc : tpc[t].at = "new_lock" /\ lock_holder \notin {0, t}

(* C37 as claimed: no thread ever waits for CURRENT_DIR_LOCK for ever: a
   thread that waits in lock() is never the thread whose own guard keeps the
   lock taken, so whoever holds the lock can go on and release it. *)
C37_NoThreadWaitsForEver == \A t \in DOMAIN tpc : Waiting(t) => lock_holder # t

(* C38 as claimed: once every TestCommand has been dropped the current
   directory is the one the process was in before the first command was
   made. *)
C38_CwdRestored ==
    (/\ commands # <<>>
     /\ \A c \in 1..Len(commands) : ~commands[c].alive
     /\ \A t \in DOMAIN tpc : tpc[t].at = "idle")
        => cwd = OrigDir

====
